---- MODULE Spec2Model ----
(***************************************************************************)
(* Model of papr's search subsystem (src/src/search.rs) and of its caller  *)
(* handle_search (src/src/lib.rs).                                         *)
(*                                                                         *)
(* Text is a sequence of one-character strings.  A canonical path is the   *)
(* sequence of its components below the root, each component a Text.       *)
(* The record store is the three tables of the schema; fs maps a paper's   *)
(* base directory to the state of its paper.pdf asset.                     *)
(***************************************************************************)
EXTENDS Integers, Sequences, FiniteSets, TLC

VARIABLES
    papers,       \* table papers: set of [id, canonical_base_path, url]
    tags,         \* table tags: set of [id, name]
    paper_tags,   \* table paper_tags: set of [paper_id, tag_id]
    fs,           \* base path -> state of <base path>/paper.pdf
    rowOrder,     \* order in which the store returns the rows of papers
    pc,           \* "idle", "papers_rows", "pdfs_rows", "done"
    query,        \* query string of the running call
    tagsArg,      \* tags argument given to handle_search
    rows,         \* the Rows cursor of the running call (paper ids)
    rowIdx,       \* position of the cursor in rows
    res,          \* fuzzy_search_papers: Vec<PaperMatch> under construction
    all_matches,  \* fuzzy_search_pdfs: Vec<PdfMatch> under construction
    engines,      \* number of Nucleo instances created by the running call
    pushed,       \* items pushed through injectors: [engine, id, i, data]
    result,       \* value returned by the last finished call
    calls,        \* number of calls started with the current arguments
    first,        \* value returned by the first of two consecutive calls
    fk,           \* whether the build of the store enforces foreign keys
    typ,          \* base path -> state of <base path>/summary/main.typ
    latest,       \* base path -> tags selected in the latest completed add
    last          \* the handler that ran last and how it ended

vars == <<papers, tags, paper_tags, fs, rowOrder, pc, query, tagsArg, rows,
          rowIdx, res, all_matches, engines, pushed, result, calls, first,
          fk, typ, latest, last>>

store == <<papers, tags, paper_tags, fs, rowOrder, fk, typ, latest, last>>

\* the variables of a running search call
call == <<pc, query, tagsArg, rows, rowIdx, res, all_matches, engines, pushed,
          result, calls, first>>

-----------------------------------------------------------------------------
(* Bounds and input sets *)

MaxPapers == 2

SP == " "
LF == "\n"
CR == "\r"
FF == "\f"

Rep(c, n) == [k \in 1..n |-> c]

Range(s) == {s[k] : k \in 1..Len(s)}

Last(s) == s[Len(s)]

\* Characters for which char::is_whitespace holds (str::trim strips them).
Whitespace == {SP, LF, CR, FF, "\t"}

\* Line-break characters that can occur in a page text.
LineBreaks == {LF, CR}

DotDot == <<".", ".">>

\* Canonical base paths: /l/ab, /x/ab, /l/bA, / and /l/..
PathSeq == << << <<"l">>, <<"a", "b">> >>,
              << <<"x">>, <<"a", "b">> >>,
              << <<"l">>, <<"b", "A">> >>,
              << >>,
              << <<"l">>, DotDot >> >>

PathSet == Range(PathSeq)

\* Contents of a paper.pdf, named by the file; "bad" is a malformed PDF.
PdfFiles == {"f1", "f2", "f3", "f4", "fLong", "bad"}

\* Text that pdf-extract produces for a well-formed file.
DocText(bytes) ==
    CASE bytes = "f1" -> <<"a", "b">>
      [] bytes = "f2" -> <<SP, LF, FF, "a", CR, "b">>
      [] bytes = "f3" -> <<"b", LF, "a", SP, FF, FF, "A", SP, "b">>
      [] bytes = "f4" -> <<SP, FF, LF>>
      [] bytes = "fLong" -> Rep("a", 60) \o <<LF>> \o Rep("b", 70)
      [] OTHER -> <<>>

AssetSet == {"absent", "unreadable"} \cup PdfFiles

QuerySet == { <<>>, <<"a", "b">>, <<"b", SP, "a">>, <<"A">> }

TagNames == {"t1", "t2"}

TagId(name) == IF name = "t1" THEN 1 ELSE 2

NoTags == [some |-> FALSE, names |-> {}]

TagArgSet == {NoTags} \cup {[some |-> TRUE, names |-> T] : T \in {{"t1"}, {"t1", "t2"}}}

Url(id) == <<"u">>

Perms(S) == {s \in [1..Cardinality(S) -> S] : Range(s) = S}

-----------------------------------------------------------------------------
(* Path::file_name and the titles derived from it *)

None == [some |-> FALSE, val |-> <<>>]

Some(v) == [some |-> TRUE, val |-> v]

\* Path::file_name: the final component, unless the path is the root or
\* terminates in "..".
FileName(path) ==
    IF path = <<>> \/ Last(path) = DotDot THEN None ELSE Some(Last(path))

PaperTitle_unknown(path) ==
    IF FileName(path).some THEN FileName(path).val
    ELSE <<"U", "n", "k", "n", "o", "w", "n">>

\* fuzzy_search_papers: file_name().and_then(to_str).unwrap_or("")
PaperTitle(path) ==
    IF FileName(path).some THEN FileName(path).val ELSE <<>>

\* fuzzy_search_pdfs: file_name().and_then(to_str).unwrap_or("Unknown")
PdfTitle(path) ==
    IF FileName(path).some THEN FileName(path).val
    ELSE <<"U", "n", "k", "n", "o", "w", "n">>

-----------------------------------------------------------------------------
(* The fuzzy matchers *)

Upper == {"A", "B", "U"}

LowerChar(c) ==
    CASE c = "A" -> "a" [] c = "B" -> "b" [] c = "U" -> "u" [] OTHER -> c

Lower(s) == [k \in 1..Len(s) |-> LowerChar(s[k])]

\* needle occurs in haystack from position start on as an order-preserving
\* subsequence: each needle character is taken at its earliest occurrence
RECURSIVE SubseqFrom(_, _, _)
SubseqFrom(needle, haystack, start) ==
    IF needle = <<>> THEN TRUE
    ELSE LET at == {k \in start..Len(haystack) : haystack[k] = Head(needle)}
         IN  IF at = {} THEN FALSE
             ELSE SubseqFrom(Tail(needle), haystack,
                             (CHOOSE k \in at : \A j \in at : k <= j) + 1)

IsSubseq(needle, haystack) == SubseqFrom(needle, haystack, 1)

\* Atom::new(query, CaseMatching::Smart, Normalization::Smart, Fuzzy, false)
\* followed by match_list on one title: whether the title is reported.
\* An empty needle reports every item; a needle with an uppercase character
\* is compared case-sensitively, any other needle case-insensitively.
AtomMatches(needle, title) ==
    IF needle = <<>> THEN TRUE
    ELSE IF \E k \in 1..Len(needle) : needle[k] \in Upper
         THEN IsSubseq(needle, title)
         ELSE IsSubseq(needle, Lower(title))

\* Pattern::reparse: the query is cut at spaces into atoms, empty atoms are
\* dropped.
RECURSIVE PatternAtoms(_, _)
PatternAtoms(q, cur) ==
    IF q = <<>> THEN (IF cur = <<>> THEN <<>> ELSE <<cur>>)
    ELSE IF Head(q) = SP
         THEN (IF cur = <<>> THEN <<>> ELSE <<cur>>) \o PatternAtoms(Tail(q), <<>>)
         ELSE PatternAtoms(Tail(q), Append(cur, Head(q)))

\* Nucleo with CaseMatching::Ignore: an item is in the snapshot when every
\* atom of the pattern is a subsequence of it, cases folded.
PatternMatches(q, haystack) ==
    \A k \in 1..Len(PatternAtoms(q, <<>>)) :
        IsSubseq(Lower(PatternAtoms(q, <<>>)[k]), Lower(haystack))

-----------------------------------------------------------------------------
(* Page splitting, trimming and the excerpt *)

\* str::split('\u{000c}'): the pieces between form feeds, empty ones kept.
Split(text) ==
    LET ff == {k \in 1..Len(text) : text[k] = FF}
        \* position of the j-th form feed; 0 before the text, Len + 1 behind it
        cut(j) == IF j = 0 THEN 0
                  ELSE IF j > Cardinality(ff) THEN Len(text) + 1
                  ELSE CHOOSE k \in ff : Cardinality({x \in ff : x <= k}) = j
    IN  [j \in 1..(Cardinality(ff) + 1) |-> SubSeq(text, cut(j - 1) + 1, cut(j) - 1)]

\* str::trim: what lies between the first and the last character that is
\* not whitespace
Trim(s) ==
    LET keep == {k \in 1..Len(s) : s[k] \notin Whitespace}
    IN  IF keep = {} THEN <<>>
        ELSE SubSeq(s, CHOOSE k \in keep : \A j \in keep : k <= j,
                       CHOOSE k \in keep : \A j \in keep : k >= j)

IsBlank_emptyOnly(page_text) == page_text = <<>>

\* page_text.trim().is_empty()
IsBlank(page_text) == Trim(page_text) = <<>>

K == 120

\* chars().take(120)
Take(s, n) == IF Len(s) <= n THEN s ELSE SubSeq(s, 1, n)

\* replace('\n', " ")
ReplaceLF(s) == [k \in 1..Len(s) |-> IF s[k] = LF THEN SP ELSE s[k]]

Suffix == <<".", ".", ".">>

\* format!("{}...", excerpt.trim())
Excerpt(data) == Trim(ReplaceLF(Take(data, K))) \o Suffix

Enumerate_surviving(pages) ==
    LET kept == SelectSeq(pages, LAMBDA p : ~IsBlank(p))
    IN  [k \in 1..Len(kept) |-> [i |-> k - 1, page_text |-> kept[k]]]

\* out.split('\u{000c}').enumerate(): zero-based positions
Enumerate(pages) == [k \in 1..Len(pages) |-> [i |-> k - 1, page_text |-> pages[k]]]

-----------------------------------------------------------------------------
(* The result ranker *)

\* Vec::sort_by(|a, b| b.score.cmp(&a.score)): a stable sort, so x goes
\* behind every element whose score is not smaller.
RECURSIVE InsertByScore(_, _)
InsertByScore(x, s) ==
    IF s = <<>> THEN <<x>>
    ELSE IF Head(s).m.score >= x.m.score
         THEN <<Head(s)>> \o InsertByScore(x, Tail(s))
         ELSE <<x>> \o s

RECURSIVE SortByScore(_)
SortByScore(s) ==
    IF s = <<>> THEN <<>>
    ELSE InsertByScore(Last(s), SortByScore(SubSeq(s, 1, Len(s) - 1)))

-----------------------------------------------------------------------------
(* The record store and the file system *)

PaperRow(id, path) == [id |-> id, canonical_base_path |-> path, url |-> Url(id)]

PaperById(id) == CHOOSE p \in papers : p.id = id

\* names of the tags linked to a paper
TagsOf(id) ==
    {t.name : t \in {u \in tags : [paper_id |-> id, tag_id |-> u.id] \in paper_tags}}

\* a library of n papers at the first n paths, with any assets and no tags
CorporaAssets ==
    {[papers |-> {PaperRow(i, PathSeq[i]) : i \in 1..n},
      tags |-> {},
      paper_tags |-> {},
      fs |-> [p \in PathSet |->
                 IF \E i \in 1..n : PathSeq[i] = p
                 THEN a[CHOOSE i \in 1..n : PathSeq[i] = p] ELSE "absent"]] :
        n \in 0..MaxPapers, a \in [1..MaxPapers -> AssetSet]}

\* a library of n papers with any tag links
CorporaTags ==
    {[papers |-> {PaperRow(i, PathSeq[i]) : i \in 1..n},
      tags |-> {[id |-> TagId(nm), name |-> nm] :
                   nm \in {x \in TagNames : \E i \in 1..n : x \in t[i]}},
      paper_tags |-> {[paper_id |-> x[1], tag_id |-> TagId(x[2])] :
                         x \in {y \in (1..n) \X TagNames : y[2] \in t[y[1]]}},
      fs |-> [p \in PathSet |->
                 IF \E i \in 1..n : PathSeq[i] = p THEN "f1" ELSE "absent"]] :
        n \in 1..MaxPapers, t \in [1..MaxPapers -> SUBSET TagNames]}

\* a library of n papers at any distinct paths
CorporaPaths ==
    {[papers |-> {PaperRow(i, PathSeq[f[i]]) : i \in 1..n},
      tags |-> {},
      paper_tags |-> {},
      fs |-> [p \in PathSet |->
                 IF \E i \in 1..n : PathSeq[f[i]] = p THEN "f1" ELSE "absent"]] :
        n \in 1..MaxPapers,
        f \in {g \in [1..MaxPapers -> 1..Len(PathSeq)] :
                  \A i, j \in 1..MaxPapers : g[i] = g[j] => i = j}}

Corpora == CorporaAssets \cup CorporaTags \cup CorporaPaths

\* "SELECT ... FROM papers": every row of the table, in the store's order
SelectPapers == rowOrder

PdfExists_always(path) == TRUE

\* pdf_path.exists()
PdfExists(path) == fs[path] # "absent"

\* std::fs::read(&pdf_path)
ReadPdf(path) ==
    IF fs[path] \in {"absent", "unreadable"} THEN None ELSE Some(fs[path])

ExtractText_lenient(bytes) ==
    IF bytes = "bad" THEN Some(<<>>) ELSE Some(DocText(bytes))

\* pdf_extract::extract_text_from_mem(&bytes)
ExtractText(bytes) ==
    IF bytes = "bad" THEN None ELSE Some(DocText(bytes))

-----------------------------------------------------------------------------
(* Values returned by the two search functions *)

Err(f) == [fn |-> f, ok |-> FALSE, matches |-> <<>>]

Ok(f, v) == [fn |-> f, ok |-> TRUE, matches |-> v]

NoResult == [fn |-> "none", ok |-> TRUE, matches |-> <<>>]

\* no handler has run yet
NoHandler == [op |-> "none", ok |-> TRUE, declined |-> FALSE]

-----------------------------------------------------------------------------
(* fuzzy_search_pdfs: the body of the loop over the pages of one document *)

\* One Nucleo instance is created for the page, the page is pushed through
\* its injector, the pattern is parsed and the engine ticked; the first item
\* of the snapshot, if any, becomes a PdfMatch.  src is not part of PdfMatch:
\* it records the row and the matched item (matched_item.data) behind it.
PageStep(item, id, title, q, acc) ==
    IF IsBlank(item.page_text) THEN acc
    ELSE LET e == acc.engines + 1
             data == item.page_text
             m == [title |-> title,
                   page |-> item.i + 1,
                   score |-> 0,
                   excerpt |-> Excerpt(data)]
         IN  [engines |-> e,
              pushed |-> acc.pushed \cup
                            {[engine |-> e, id |-> id, i |-> item.i, data |-> data]},
              matches |-> IF PatternMatches(q, data)
                          THEN Append(acc.matches,
                                      [m |-> m, src |-> [id |-> id, data |-> data]])
                          ELSE acc.matches]

RECURSIVE PageLoop(_, _, _, _, _)
PageLoop(items, id, title, q, acc) ==
    IF items = <<>> THEN acc
    ELSE PageLoop(Tail(items), id, title, q, PageStep(Head(items), id, title, q, acc))

-----------------------------------------------------------------------------
(* Initial state: a library and no search running *)

Init ==
    /\ \E c \in Corpora :
          /\ papers = c.papers
          /\ tags = c.tags
          /\ paper_tags = c.paper_tags
          /\ fs = c.fs
    /\ rowOrder \in Perms({p.id : p \in papers})
    /\ pc = "idle"
    /\ query = <<>>
    /\ tagsArg = NoTags
    /\ rows = <<>>
    /\ rowIdx = 1
    /\ res = <<>>
    /\ all_matches = <<>>
    /\ engines = 0
    /\ pushed = {}
    /\ result = NoResult
    /\ calls = 0
    /\ first = NoResult
    /\ fk = FALSE
    /\ typ = [p \in PathSet |->
                 IF \E r \in papers : r.canonical_base_path = p THEN "main" ELSE "absent"]
    /\ latest = [p \in PathSet |-> NoTags]
    /\ last = NoHandler

-----------------------------------------------------------------------------
(* fuzzy_search_papers *)

\* lines 33-46: the query is issued and res starts empty
StartPapers(q) ==
    /\ query' = q
    /\ rows' = SelectPapers
    /\ rowIdx' = 1
    /\ res' = <<>>
    /\ pc' = "papers_rows"
    /\ UNCHANGED <<store, tagsArg, all_matches, engines, pushed, result>>

\* the callers handle_remove, handle_retag, handle_cite and handle_notes
search_papers ==
    /\ pc = "idle"
    /\ \E q \in QuerySet : StartPapers(q)
    /\ calls' = 1
    /\ first' = NoResult

\* one iteration of the loop over the rows
papers_row ==
    /\ pc = "papers_rows"
    /\ rowIdx <= Len(rows)
    /\ LET row == PaperById(rows[rowIdx])
           title == PaperTitle(row.canonical_base_path)
       IN  res' = IF title # <<>> /\ AtomMatches(query, title)
                  THEN Append(res, [id |-> row.id,
                                    canonical_base_path |-> row.canonical_base_path,
                                    url |-> row.url])
                  ELSE res
    /\ rowIdx' = rowIdx + 1
    /\ UNCHANGED <<store, pc, query, tagsArg, rows, all_matches, engines, pushed,
                   result, calls, first>>

\* the cursor is exhausted: Ok(res)
papers_return ==
    /\ pc = "papers_rows"
    /\ rowIdx > Len(rows)
    /\ result' = Ok("papers", res)
    /\ pc' = "done"
    /\ UNCHANGED <<store, query, tagsArg, rows, rowIdx, res, all_matches, engines,
                   pushed, calls, first>>

-----------------------------------------------------------------------------
(* fuzzy_search_pdfs *)

StartPdfs_keep(q) ==
    /\ query' = q
    /\ rows' = SelectPapers
    /\ rowIdx' = 1
    /\ engines' = 0
    /\ pushed' = {}
    /\ pc' = "pdfs_rows"
    /\ UNCHANGED <<store, all_matches, res, result>>

\* lines 86-90: the query is issued and all_matches starts empty
StartPdfs(q) ==
    /\ query' = q
    /\ rows' = SelectPapers
    /\ rowIdx' = 1
    /\ all_matches' = <<>>
    /\ engines' = 0
    /\ pushed' = {}
    /\ pc' = "pdfs_rows"
    /\ UNCHANGED <<store, res, result>>

\* handle_search with pdf = true: the tags argument is handed over, but
\* fuzzy_search_pdfs takes the connection and the query only
handle_search ==
    /\ pc = "idle"
    /\ \E q \in QuerySet, t \in TagArgSet :
          /\ tagsArg' = t
          /\ StartPdfs(q)
    /\ calls' = 1
    /\ first' = NoResult

\* one iteration of the loop over the rows
pdfs_row ==
    /\ pc = "pdfs_rows"
    /\ rowIdx <= Len(rows)
    /\ LET base_path == PaperById(rows[rowIdx]).canonical_base_path
           title == PdfTitle(base_path)
           bytes == ReadPdf(base_path)
           out == ExtractText(bytes.val)
           acc == PageLoop(Enumerate(Split(out.val)), rows[rowIdx], title, query,
                           [engines |-> engines, pushed |-> pushed,
                            matches |-> all_matches])
       IN  IF ~PdfExists(base_path)
           THEN /\ rowIdx' = rowIdx + 1
                /\ UNCHANGED <<pc, all_matches, engines, pushed, result>>
           ELSE IF ~bytes.some \/ ~out.some
           THEN /\ result' = Err("pdfs")
                /\ pc' = "done"
                /\ UNCHANGED <<rowIdx, all_matches, engines, pushed>>
           ELSE /\ all_matches' = acc.matches
                /\ engines' = acc.engines
                /\ pushed' = acc.pushed
                /\ rowIdx' = rowIdx + 1
                /\ UNCHANGED <<pc, result>>
    /\ UNCHANGED <<store, query, tagsArg, rows, res, calls, first>>

\* the cursor is exhausted: sort by score and return
pdfs_return ==
    /\ pc = "pdfs_rows"
    /\ rowIdx > Len(rows)
    /\ result' = Ok("pdfs", SortByScore(all_matches))
    /\ pc' = "done"
    /\ UNCHANGED <<store, query, tagsArg, rows, rowIdx, res, all_matches, engines,
                   pushed, calls, first>>

-----------------------------------------------------------------------------
(* A second, consecutive call with the same arguments on the same library *)

repeat_call ==
    /\ pc = "done"
    /\ calls = 1
    /\ first' = result
    /\ calls' = 2
    /\ IF result.fn = "pdfs"
       THEN StartPdfs(query) /\ UNCHANGED tagsArg
       ELSE StartPapers(query)

Next ==
    \/ search_papers
    \/ papers_row
    \/ papers_return
    \/ handle_search
    \/ pdfs_row
    \/ pdfs_return
    \/ repeat_call

Spec == Init /\ [][Next]_vars

-----------------------------------------------------------------------------
(* Properties *)

Done(f) == pc = "done" /\ result.fn = f

PathOf(id) == PaperById(id).canonical_base_path

\* the pages of the document stored for a paper
PagesOf(id) == Split(DocText(fs[PathOf(id)]))

AllWhitespace(text) == \A k \in 1..Len(text) : text[k] \in Whitespace

HasPdfText(id) == fs[PathOf(id)] \notin {"absent", "unreadable", "bad"}

\* C1: while handle_search runs the PDF search with tags = Some(T), the rows
\* the search iterates over are exactly the papers linked to every tag name
\* in T; with tags = None they are all the papers.
C1_TagFilterExact ==
    pc = "pdfs_rows" =>
        Range(rows) = IF tagsArg.some
                      THEN {p.id : p \in {r \in papers : tagsArg.names \subseteq TagsOf(r.id)}}
                      ELSE {p.id : p \in papers}

\* C2: the list returned by fuzzy_search_pdfs is ordered by descending score,
\* and results of equal score are ordered by ascending record id and then by
\* ascending page.
C2_RankedWithTieBreak ==
    Done("pdfs") /\ result.ok =>
        \A i, j \in 1..Len(result.matches) :
            i < j =>
                LET a == result.matches[i]
                    b == result.matches[j]
                IN  /\ a.m.score >= b.m.score
                    /\ a.m.score = b.m.score =>
                          \/ a.src.id < b.src.id
                          \/ a.src.id = b.src.id /\ a.m.page <= b.m.page

\* C3: every PdfMatch carries page = i + 1, where i is the position of the
\* matched page in the sequence extracted from the document, blank pages
\* included: the page at that number of the document is the matched text.
C3_PageIndexing ==
    \A k \in 1..Len(all_matches) :
        LET x == all_matches[k]
        IN  /\ x.m.page \in 1..Len(PagesOf(x.src.id))
            /\ PagesOf(x.src.id)[x.m.page] = x.src.data

\* a match on page 2 of a document whose page 1 is blank has been returned
C3_Witness ==
    /\ Done("pdfs")
    /\ \E k \in 1..Len(result.matches) :
          /\ result.matches[k].m.page = 2
          /\ AllWhitespace(PagesOf(result.matches[k].src.id)[1])

\* C4: a candidate without a paper.pdf contributes no result and causes no
\* error: unless some other candidate's PDF cannot be read or extracted the
\* search returns Ok with exactly the matching pages of the candidates that
\* have a PDF.
C4_AbsentAssetSkipped ==
    Done("pdfs") =>
        /\ \A k \in 1..Len(result.matches) :
              fs[PathOf(result.matches[k].src.id)] # "absent"
        /\ (\A p \in papers : fs[p.canonical_base_path] \notin {"unreadable", "bad"}) =>
              /\ result.ok
              /\ {<<result.matches[k].src.id, result.matches[k].m.page>> :
                     k \in 1..Len(result.matches)}
                 = UNION {{<<id, j>> :
                              j \in {n \in 1..Len(PagesOf(id)) :
                                        /\ ~AllWhitespace(PagesOf(id)[n])
                                        /\ PatternMatches(query, PagesOf(id)[n])}} :
                          id \in {p.id : p \in {r \in papers : HasPdfText(r.id)}}}

\* the first row had no paper.pdf and a later row's matches were returned
C4_Witness ==
    /\ Done("pdfs")
    /\ result.ok
    /\ result.matches # <<>>
    /\ fs[PathOf(rows[1])] = "absent"

\* C5: fuzzy_search_papers returns at most one PaperMatch per paper, and one
\* for a paper exactly when the final segment of its path exists, is
\* non-empty and is matched by the query.
C5_TitleMatchExactly ==
    Done("papers") =>
        /\ result.ok
        /\ \A i, j \in 1..Len(result.matches) :
              result.matches[i].id = result.matches[j].id => i = j
        /\ {result.matches[k].id : k \in 1..Len(result.matches)}
           = {p.id : p \in {r \in papers :
                               /\ FileName(r.canonical_base_path).some
                               /\ FileName(r.canonical_base_path).val # <<>>
                               /\ AtomMatches(query, FileName(r.canonical_base_path).val)}}

\* one paper without a final path segment was omitted, another was matched
C5_Witness ==
    /\ Done("papers")
    /\ Len(result.matches) = 1
    /\ \E p \in papers : ~FileName(p.canonical_base_path).some

\* C6: every excerpt, its truncation suffix removed, has at most 120
\* characters and contains no line-break character.
C6_ExcerptSingleLine ==
    \A k \in 1..Len(all_matches) :
        LET e == all_matches[k].m.excerpt
            body == SubSeq(e, 1, Len(e) - Len(Suffix))
        IN  /\ Len(body) <= K
            /\ \A j \in 1..Len(body) : body[j] \notin LineBreaks

\* C7: a page that is empty or whitespace-only is never pushed into a
\* matching engine and never appears as a PdfMatch, whatever the query.
C7_BlankPagesExcluded ==
    /\ \A x \in pushed : ~AllWhitespace(x.data)
    /\ \A k \in 1..Len(all_matches) :
          /\ ~AllWhitespace(all_matches[k].src.data)
          /\ ~AllWhitespace(PagesOf(all_matches[k].src.id)[all_matches[k].m.page])

\* the empty query ran over a document with a blank page and returned matches
C7_Witness ==
    /\ Done("pdfs")
    /\ query = <<>>
    /\ result.matches # <<>>
    /\ \E p \in papers :
          /\ HasPdfText(p.id)
          /\ \E j \in 1..Len(PagesOf(p.id)) : AllWhitespace(PagesOf(p.id)[j])
          /\ \E j \in 1..Len(PagesOf(p.id)) : PagesOf(p.id)[j] # <<>>
                                              /\ AllWhitespace(PagesOf(p.id)[j])

\* C8: if reading or extraction fails for a candidate's PDF, the search
\* returns an error and none of the matches collected before.
C8_ExtractionFailureFatal ==
    Done("pdfs") /\ (\E p \in papers : fs[p.canonical_base_path] \in {"unreadable", "bad"}) =>
        /\ ~result.ok
        /\ result.matches = <<>>

\* the search failed after matches of an earlier candidate had been collected
C8_Witness ==
    /\ Done("pdfs")
    /\ ~result.ok
    /\ all_matches # <<>>

C10_SingleEngine ==
    /\ engines <= 1
    /\ \A x \in pushed : x.engine = 1

\* C11: a PdfMatch identifies the paper that owns the matched page: matches
\* of two papers stored at different canonical paths never name the same paper.
C11_MatchIdentifiesPaper ==
    \A i, j \in 1..Len(all_matches) :
        PathOf(all_matches[i].src.id) # PathOf(all_matches[j].src.id) =>
            all_matches[i].m.title # all_matches[j].m.title

-----------------------------------------------------------------------------
(* The store statements of handle_add, handle_remove and handle_retag.      *)
(* db is a record [papers, tags, paper_tags, ok]; ok turns FALSE when a     *)
(* statement fails, and the handler returns the error at that statement.    *)
(* The schema declares the two foreign keys of paper_tags without ON DELETE *)
(* action and paper_tags without a key; whether foreign keys are enforced   *)
(* is a property of the build of the store (fk).                            *)

\* largest id that the model lets a table assign
MaxId == 2

MaxOf(S) == IF S = {} THEN 0 ELSE CHOOSE x \in S : \A y \in S : x >= y

\* the paths handle_add is run for
AddPaths == {PathSeq[1], PathSeq[2]}

\* PDF contents a download can deliver
Downloads == {"f1", "f2"}

\* queries given to handle_remove and handle_retag: one matching every
\* title, one matching none of the titles of AddPaths
HandlerQueries == { <<>>, <<"A">> }

\* final_tag_names after sort() and dedup()
NameOrder == <<"t1", "t2">>

SortedNames(T) == SelectSeq(NameOrder, LAMBDA nm : nm \in T)

Db == [papers |-> papers, tags |-> tags, paper_tags |-> paper_tags, ok |-> TRUE]

Failed(db) == [db EXCEPT !.ok = FALSE]

RowsAt(db, path) == {r \in db.papers : r.canonical_base_path = path}

LinksOf(db, id) == {l \in db.paper_tags : l.paper_id = id}

NewPaperId_reuse(db, path) ==
    IF RowsAt(db, path) # {} THEN (CHOOSE r \in RowsAt(db, path) : TRUE).id
    ELSE MaxOf({r.id : r \in db.papers}) + 1

\* id INTEGER PRIMARY KEY: the row inserted gets the largest id of the table
\* plus one, the row it replaces being counted
NewPaperId(db, path) == MaxOf({r.id : r \in db.papers}) + 1

\* INSERT OR REPLACE INTO papers (canonical_base_path, ...): the row with
\* this path is deleted and a new row inserted. With foreign keys enforced
\* the statement fails when a paper_tags row refers to the deleted row.
InsertOrReplacePaper(db, path) ==
    IF fk /\ \E r \in RowsAt(db, path) : LinksOf(db, r.id) # {}
    THEN Failed(db)
    ELSE [db EXCEPT !.papers = (db.papers \ RowsAt(db, path))
                                  \cup {PaperRow(NewPaperId(db, path), path)}]

\* select id from papers where canonical_base_path = ?1
PaperIdAt(db, path) == (CHOOSE r \in RowsAt(db, path) : TRUE).id

\* tag_paper, one name: INSERT OR IGNORE INTO tags, select its id, INSERT OR
\* IGNORE INTO paper_tags
TagOne(db, paper_id, tag_name) ==
    LET tags1 == IF \E t \in db.tags : t.name = tag_name THEN db.tags
                 ELSE db.tags \cup {[id |-> MaxOf({t.id : t \in db.tags}) + 1,
                                     name |-> tag_name]}
        tag_id == (CHOOSE t \in tags1 : t.name = tag_name).id
    IN  [db EXCEPT !.tags = tags1,
                   !.paper_tags = db.paper_tags \cup
                                     {[paper_id |-> paper_id, tag_id |-> tag_id]}]

\* tag_paper
RECURSIVE tag_paper(_, _, _)
tag_paper(db, paper_id, tag_names) ==
    IF tag_names = <<>> THEN db
    ELSE tag_paper(TagOne(db, paper_id, Head(tag_names)), paper_id, Tail(tag_names))

\* DELETE FROM tags WHERE id NOT IN (SELECT DISTINCT tag_id FROM paper_tags)
PruneTags(db) ==
    [db EXCEPT !.tags = {t \in db.tags : \E l \in db.paper_tags : l.tag_id = t.id}]

\* DELETE FROM papers WHERE id = ?1: no statement of the schema removes the
\* paper_tags rows of the paper; with foreign keys enforced the statement
\* fails while such rows exist.
DeletePaper(db, id) ==
    IF fk /\ LinksOf(db, id) # {}
    THEN Failed(db)
    ELSE [db EXCEPT !.papers = {r \in db.papers : r.id # id}]

\* DELETE FROM paper_tags WHERE paper_id = ?1
DeleteLinks(db, id) ==
    [db EXCEPT !.paper_tags = {l \in db.paper_tags : l.paper_id # id}]

\* the ids every statement of the model may assign stay below the bound
WithinIds(db) ==
    /\ \A r \in db.papers : r.id <= MaxId
    /\ \A t \in db.tags : t.id <= MaxId

\* what fuzzy_search_papers returns for a query: the ids of the rows with a
\* matched title, in the order of the rows
MatchingPapers(q) ==
    SelectSeq(SelectPapers,
              LAMBDA id : /\ PaperTitle(PathOf(id)) # <<>>
                          /\ AtomMatches(q, PaperTitle(PathOf(id))))

-----------------------------------------------------------------------------
(* handle_add, handle_remove and handle_retag *)

DirExists(path) == fs[path] # "absent" \/ typ[path] # "absent"

Handler(op, ok, declined) == [op |-> op, ok |-> ok, declined |-> declined]

ConfirmOverwrite_early(path, ans) ==
    [proceed |-> ans /\ DirExists(path),
     ok |-> ~ans \/ DirExists(path),
     fs |-> [fs EXCEPT ![path] = "absent"],
     typ |-> [typ EXCEPT ![path] = "absent"]]

\* handle_add, lines 156-173, for a path that has a row: the answer to the
\* Confirm prompt either removes the paper's directory (remove_dir_all fails
\* on a missing directory) or ends the handler with Ok(())
ConfirmOverwrite(path, ans) ==
    [proceed |-> ans /\ DirExists(path),
     ok |-> ~ans \/ DirExists(path),
     fs |-> IF ans /\ DirExists(path) THEN [fs EXCEPT ![path] = "absent"] ELSE fs,
     typ |-> IF ans /\ DirExists(path) THEN [typ EXCEPT ![path] = "absent"] ELSE typ]

\* the statements of handle_add behind the directory setup, lines 187-212
AddToStore(path, T) ==
    LET db1 == InsertOrReplacePaper(Db, path)
    IN  IF ~db1.ok THEN db1
        ELSE tag_paper(db1, PaperIdAt(db1, path), SortedNames(T))

\* handle_add: title (hence path), tag selection, downloaded content and the
\* answer to the overwrite prompt are the inputs
handle_add ==
    \E path \in AddPaths, T \in SUBSET TagNames, content \in Downloads, ans \in BOOLEAN :
        LET exists == RowsAt(Db, path) # {}
            co == ConfirmOverwrite(path, ans)
            db == AddToStore(path, T)
        IN  /\ exists \/ ans
            /\ IF exists /\ ~co.proceed
               THEN /\ fs' = co.fs
                    /\ typ' = co.typ
                    /\ last' = Handler("add", co.ok, ~ans)
                    /\ UNCHANGED <<papers, tags, paper_tags, rowOrder, latest>>
               ELSE /\ WithinIds(db)
                    /\ fs' = [fs EXCEPT ![path] = content]
                    /\ typ' = [typ EXCEPT ![path] = "main"]
                    /\ papers' = db.papers
                    /\ tags' = db.tags
                    /\ paper_tags' = db.paper_tags
                    /\ rowOrder' \in Perms({r.id : r \in db.papers})
                    /\ latest' = IF db.ok
                                 THEN [latest EXCEPT ![path] = [some |-> TRUE, names |-> T]]
                                 ELSE latest
                    /\ last' = Handler("add", db.ok, FALSE)
            /\ UNCHANGED <<fk, call>>

\* handle_remove, lines 230-249: the loop over the selected papers
RECURSIVE RemoveLoop(_, _)
RemoveLoop(sel, st) ==
    IF sel = <<>> \/ ~st.db.ok THEN st
    ELSE LET id == Head(sel)
             path == (CHOOSE r \in st.db.papers : r.id = id).canonical_base_path
             db1 == DeletePaper(st.db, id)
             gone == st.fs[path] = "absent" /\ st.typ[path] = "absent"
         IN  IF ~db1.ok THEN [st EXCEPT !.db = db1]
             ELSE RemoveLoop(Tail(sel),
                             [db |-> [PruneTags(db1) EXCEPT !.ok = ~gone],
                              fs |-> [st.fs EXCEPT ![path] = "absent"],
                              typ |-> [st.typ EXCEPT ![path] = "absent"],
                              latest |-> [st.latest EXCEPT ![path] = NoTags]])

\* handle_remove: the query and the papers ticked in the MultiSelect prompt
\* are the inputs
handle_remove ==
    \E q \in HandlerQueries :
        LET found == MatchingPapers(q)
        IN  IF found = <<>>
            THEN /\ last' = Handler("remove", FALSE, FALSE)
                 /\ UNCHANGED <<papers, tags, paper_tags, fs, typ, rowOrder, latest,
                                fk, call>>
            ELSE \E S \in SUBSET Range(found) :
                    LET st == RemoveLoop(SelectSeq(found, LAMBDA id : id \in S),
                                         [db |-> Db, fs |-> fs, typ |-> typ,
                                          latest |-> latest])
                    IN  /\ papers' = st.db.papers
                        /\ tags' = st.db.tags
                        /\ paper_tags' = st.db.paper_tags
                        /\ fs' = st.fs
                        /\ typ' = st.typ
                        /\ rowOrder' \in Perms({r.id : r \in st.db.papers})
                        /\ latest' = st.latest
                        /\ last' = Handler("remove", st.db.ok, FALSE)
                        /\ UNCHANGED <<fk, call>>

\* handle_retag: the query, the paper picked in the Select prompt and the tag
\* selection are the inputs
handle_retag ==
    \E q \in HandlerQueries :
        LET found == MatchingPapers(q)
        IN  IF found = <<>>
            THEN /\ last' = Handler("retag", FALSE, FALSE)
                 /\ UNCHANGED <<papers, tags, paper_tags, fs, typ, rowOrder, latest,
                                fk, call>>
            ELSE \E paper_id \in Range(found), T \in SUBSET TagNames :
                    LET db == tag_paper(PruneTags(DeleteLinks(Db, paper_id)),
                                        paper_id, SortedNames(T))
                    IN  /\ WithinIds(db)
                        /\ tags' = db.tags
                        /\ paper_tags' = db.paper_tags
                        /\ last' = Handler("retag", TRUE, FALSE)
                        /\ UNCHANGED <<papers, fs, typ, rowOrder, latest, fk, call>>

\* main: the schema has been created in an empty database
InitOps ==
    /\ papers = {}
    /\ tags = {}
    /\ paper_tags = {}
    /\ fs = [p \in PathSet |-> "absent"]
    /\ typ = [p \in PathSet |-> "absent"]
    /\ rowOrder = <<>>
    /\ fk \in BOOLEAN
    /\ latest = [p \in PathSet |-> NoTags]
    /\ last = NoHandler
    /\ pc = "idle"
    /\ query = <<>>
    /\ tagsArg = NoTags
    /\ rows = <<>>
    /\ rowIdx = 1
    /\ res = <<>>
    /\ all_matches = <<>>
    /\ engines = 0
    /\ pushed = {}
    /\ result = NoResult
    /\ calls = 0
    /\ first = NoResult

NextAdd == handle_add

\* the library grown by handle_add alone
SpecAdd == InitOps /\ [][NextAdd]_vars

NextOps ==
    \/ handle_add
    \/ handle_remove
    \/ handle_retag

\* the library under handle_add, handle_remove and handle_retag
SpecOps == InitOps /\ [][NextOps]_vars

-----------------------------------------------------------------------------
(* Properties of the store handlers *)

C13_NoDanglingNoOrphans ==
    last.op \in {"remove", "retag"} /\ last.ok =>
        /\ \A l \in paper_tags : \E r \in papers : r.id = l.paper_id
        /\ \A t \in tags :
              \E l \in paper_tags : l.tag_id = t.id /\ \E r \in papers : r.id = l.paper_id

\* C14: a handle_add that finds a record with its path and is declined the
\* overwrite returns Ok and leaves the three tables and the directories as
\* they were.
C14_DeclineChangesNothing ==
    [][(last'.op = "add" /\ last'.declined) =>
          (last'.ok /\ UNCHANGED <<papers, tags, paper_tags, fs, typ>>)]_vars

\* an add was declined the overwrite of a stored paper
C14_Witness ==
    /\ last = Handler("add", TRUE, TRUE)
    /\ papers # {}

====
